---- MODULE Spec2Model ----
(***************************************************************************)
(* TreeIndex of scalable-concurrent-containers: the public operations of   *)
(* src/src/treeindex.rs (insert, remove, read, Scanner) as a state machine *)
(* over a heap of nodes and leaves.  Each thread executes the statements   *)
(* of one call at a time; every access to shared memory (a load or CAS of  *)
(* the root, one call into the root Node) is one atomic step.              *)
(*                                                                         *)
(* Node, Leaf and LeafScanner (node.rs, leafnode.rs, leaf.rs, error.rs)    *)
(* are not part of the source tree at hand; their operations are modelled  *)
(* from the design document (sections 3, 4.3, 4.4, 4.5, 4.6, 7).           *)
(*                                                                         *)
(* The second part is the shared handle of src/src/ebr/arc.rs: one         *)
(* instance, the Arc handles the threads own, the Ptr and Barrier they     *)
(* hold, and the reclaimer the last drop passes the instance to.           *)
(* Underlying, Ptr and Barrier are not part of the source tree at hand and *)
(* are modelled from the design document (sections 4.1, 4.2).              *)
(***************************************************************************)
EXTENDS Integers, Sequences, FiniteSets, TLC

\* ---------------------------------------------------------------- bounds
MaxKey == 5
MaxCallKey == 3
MaxVal == 2
NThreads == 2
MaxCalls == 3
MaxSeqCalls == 3
MaxScanCalls == 2
MaxFairCalls == 2
MaxRestarts == 2
Fanout == 2
MaxRefs == 3
MaxPasses == 2

Keys == 1..MaxKey
CallKeys == 1..MaxCallKey
Values == 1..MaxVal
Threads == 1..NThreads

Null == 0
NoThread == 0
NoVal == 0

VARIABLES
    leaf,      \* heap of leaves: Seq of [ents, used, next, obs]
    node,      \* heap of nodes: Seq of [floor, kids, seps, latch, obs]
    root,      \* TreeIndex::root: a node id or Null
    th,        \* per thread: the locals of the call it executes
    gh,        \* per thread: bookkeeping of the call (history variables)
    abs,       \* the reference ordered map, updated at linearization points
    budget,    \* calls the callers may still start
    mode,      \* which driver runs the threads
    script,    \* calls the first thread makes, alone, before the others start
    log,       \* completed calls, recorded by the sequential driver
    arc,       \* the instance behind the handles: [ref_cnt, state, waiting]
    ah,        \* per thread: the handles, Barrier and Ptr it holds
    ag         \* history of the instance (history variable)

vars == <<leaf, node, root, th, gh, abs, budget, mode, script, log, arc, ah, ag>>

\* ------------------------------------------------------------ small helpers
Min(S) == CHOOSE x \in S : \A y \in S : x <= y

\* F applied to the value of x, which is computed once.
Eager(x, F(_)) == CHOOSE y \in {F(v) : v \in {x}} : TRUE

Max(S) == CHOOSE x \in S : \A y \in S : x >= y

RECURSIVE SortedKeys(_)
SortedKeys(S) == IF S = {} THEN <<>> ELSE <<Min(S)>> \o SortedKeys(S \ {Min(S)})

SubSeqFrom(s, i) == IF i > Len(s) THEN <<>> ELSE SubSeq(s, i, Len(s))
SubSeqTo(s, i) == IF i < 1 THEN <<>> ELSE SubSeq(s, 1, i)
RemoveAt(s, i) == SubSeqTo(s, i - 1) \o SubSeqFrom(s, i + 1)

\* The heap the operations below transform.
Heap == [leaf |-> leaf, node |-> node, root |-> root]

\* ------------------------------------------------------------ leaf (leaf.rs)
\* A leaf holds at most Fanout slots.  ents are its live entries <<k, v>>,
\* used counts the slots ever occupied (a retired slot is never re-occupied),
\* next is the forward link and obs the obsolete flag.
NewLeaf(es, nx) == [ents |-> es, used |-> Cardinality(es), next |-> nx, obs |-> FALSE]

LiveKeys(lf) == {e[1] : e \in lf.ents}

LeafSearch(lf, k) ==
    IF k \in LiveKeys(lf) THEN (CHOOSE e \in lf.ents : e[1] = k)[2] ELSE NoVal

LeafFull(lf) == lf.used >= Fanout

LeafInsert(lf, k, v) == [lf EXCEPT !.ents = @ \cup {<<k, v>>}, !.used = @ + 1]

LeafRemove(lf, k) == [lf EXCEPT !.ents = {e \in @ : e[1] # k}]

\* Every live leaf whose forward link is `old` is re-pointed to `new`.
Relink(lh, old, new) ==
    [p \in DOMAIN lh |->
        IF ~lh[p].obs /\ lh[p].next = old THEN [lh[p] EXCEPT !.next = new] ELSE lh[p]]

\* LeafScanner: a cursor into one leaf, on the entry it yielded last (key 0
\* before the first).
NoScanner == [leaf |-> Null, key |-> 0, val |-> NoVal]

\* LeafScanner::new
LeafScannerNew(l) == [leaf |-> l, key |-> 0, val |-> NoVal]

\* LeafScanner::get: the entry the cursor is on, key 0 if none.
LeafScannerGet(ls) == <<ls.key, ls.val>>

\* LeafScanner::next: the cursor moved to the next live entry of the leaf in
\* key order; NoScanner when there is none.
LeafScannerNext(H, ls) ==
    LET S == {e \in H.leaf[ls.leaf].ents : e[1] > ls.key}
    IN  IF S = {} THEN NoScanner
        ELSE LET e == CHOOSE x \in S : \A y \in S : x[1] <= y[1]
             IN  [leaf |-> ls.leaf, key |-> e[1], val |-> e[2]]

\* LeafScanner::jump: a cursor before the first entry of the leaf the forward
\* link leads to; NoScanner at the end of the chain.
LeafScannerJump(H, ls) ==
    IF H.leaf[ls.leaf].next = Null THEN NoScanner
    ELSE LeafScannerNew(H.leaf[ls.leaf].next)

\* ------------------------------------------------------------ node (node.rs, leafnode.rs)
\* A node of floor 0 holds leaves, a node of a higher floor holds nodes.
\* Child i holds the keys <= seps[i]; the last child is unbounded.
NewNode(fl, ks, ss) ==
    [floor |-> fl, kids |-> ks, seps |-> ss, latch |-> NoThread, obs |-> FALSE]

Route(nd, k) ==
    LET S == {i \in 1..Len(nd.seps) : k <= nd.seps[i]}
    IN  IF S = {} THEN Len(nd.kids) ELSE Min(S)

RECURSIVE NodesUnder(_, _)
NodesUnder(H, n) ==
    IF H.node[n].floor = 0 THEN {n}
    ELSE {n} \cup UNION {NodesUnder(H, H.node[n].kids[i]) : i \in 1..Len(H.node[n].kids)}

LeavesUnder(H, n) ==
    UNION {{H.node[m].kids[i] : i \in 1..Len(H.node[m].kids)} :
              m \in {x \in NodesUnder(H, n) : H.node[x].floor = 0}}

\* The live entries reachable from the root: the content of the tree.
TreeEntries(H) ==
    IF H.root = Null THEN {}
    ELSE UNION {H.leaf[l].ents : l \in LeavesUnder(H, H.root)}

RECURSIVE IsEmptyNode(_, _)
IsEmptyNode(H, n) ==
    LET nd == H.node[n]
    IN  /\ Len(nd.kids) = 1
        /\ IF nd.floor = 0 THEN H.leaf[nd.kids[1]].ents = {}
           ELSE IsEmptyNode(H, nd.kids[1])

\* Retiring a subtree: every node and leaf of it is marked obsolete.
Retire(H, n) ==
    LET ns == NodesUnder(H, n)
        ls == LeavesUnder(H, n)
    IN  [H EXCEPT
            !.node = [x \in DOMAIN H.node |->
                        IF x \in ns THEN [H.node[x] EXCEPT !.obs = TRUE] ELSE H.node[x]],
            !.leaf = [x \in DOMAIN H.leaf |->
                        IF x \in ls THEN [H.leaf[x] EXCEPT !.obs = TRUE] ELSE H.leaf[x]]]

\* Node::new(0, true): a leaf node over one empty leaf.
AllocRoot(H) ==
    LET l == Len(H.leaf) + 1
        n == Len(H.node) + 1
    IN  [leaf |-> Append(H.leaf, NewLeaf({}, Null)),
         node |-> Append(H.node, NewNode(0, <<l>>, <<>>)),
         root |-> n]

\* Node::search
RECURSIVE NodeSearch(_, _, _)
NodeSearch(H, n, k) ==
    LET nd == H.node[n]
    IN  IF nd.obs THEN [tag |-> "Retry", val |-> NoVal]
        ELSE IF nd.floor = 0
             THEN [tag |-> "Ok", val |-> LeafSearch(H.leaf[nd.kids[Route(nd, k)]], k)]
             ELSE NodeSearch(H, nd.kids[Route(nd, k)], k)

\* Node::max_less: a cursor before the first entry of the leaf that key k
\* routes to; no key >= k lies in a leaf before it.
RECURSIVE NodeMaxLess(_, _, _)
NodeMaxLess(H, n, k) ==
    LET nd == H.node[n]
    IN  IF nd.obs THEN [tag |-> "Retry", ls |-> NoScanner]
        ELSE IF nd.floor = 0
             THEN [tag |-> "Ok", ls |-> LeafScannerNew(nd.kids[Route(nd, k)])]
        ELSE NodeMaxLess(H, nd.kids[Route(nd, k)], k)

\* Node::min: a cursor before the first entry of the leftmost leaf.
RECURSIVE NodeMin(_, _)
NodeMin(H, n) ==
    LET nd == H.node[n]
    IN  IF nd.obs THEN [tag |-> "Retry", ls |-> NoScanner]
        ELSE IF nd.floor = 0 THEN [tag |-> "Ok", ls |-> LeafScannerNew(nd.kids[1])]
        ELSE NodeMin(H, nd.kids[1])

\* The two halves of node c (it has at least two children) and the separator
\* between them; c itself becomes obsolete.
SplitNode(H, c) ==
    LET cd == H.node[c]
        m  == Len(cd.kids) \div 2
        a  == Len(H.node) + 1
        lo == NewNode(cd.floor, SubSeqTo(cd.kids, m), SubSeqTo(cd.seps, m - 1))
        hi == NewNode(cd.floor, SubSeqFrom(cd.kids, m + 1), SubSeqFrom(cd.seps, m + 1))
    IN  [node |-> Append(Append([H.node EXCEPT ![c].obs = TRUE], lo), hi),
         lo |-> a, hi |-> a + 1, sep |-> cd.seps[m]]

\* Full-propagation at an internal node n with room: child i is replaced by
\* its two halves.
SplitChild(H, n, i) ==
    LET sp == SplitNode(H, H.node[n].kids[i])
        nd == sp.node[n]
    IN  [H EXCEPT !.node = [sp.node EXCEPT
            ![n].kids = SubSeqTo(nd.kids, i - 1) \o <<sp.lo, sp.hi>> \o SubSeqFrom(nd.kids, i + 1),
            ![n].seps = SubSeqTo(nd.seps, i - 1) \o <<sp.sep>> \o SubSeqFrom(nd.seps, i)]]

\* Node::split_root: a new root one level taller over the two halves of the
\* old root r, installed by a CAS of the root pointer from r.
SplitRoot(H, r) ==
    IF H.root # r \/ H.node[r].obs \/ Len(H.node[r].kids) < 2 THEN H
    ELSE LET sp == SplitNode(H, r)
         IN  [H EXCEPT
                !.node = Append(sp.node, NewNode(H.node[r].floor + 1, <<sp.lo, sp.hi>>, <<sp.sep>>)),
                !.root = Len(sp.node) + 1]

\* The split of the full leaf that key k routes to in leaf node n, integrated
\* into n together with the entry that did not fit.  The old leaf becomes
\* obsolete; its forward link either keeps its target or leads to the
\* replacement (relink), the design fixes neither.
IntegrateSplit(H, n, k, v, relink) ==
    LET nd  == H.node[n]
        i   == Route(nd, k)
        l   == nd.kids[i]
        lf  == H.leaf[l]
        es  == lf.ents \cup {<<k, v>>}
        a   == Len(H.leaf) + 1
        lh  == [Relink(H.leaf, l, a) EXCEPT
                    ![l].obs = TRUE, ![l].next = IF relink THEN a ELSE lf.next]
    IN  Eager(SortedKeys({e[1] : e \in es}), LAMBDA ks :
        LET m  == (Len(ks) + 1) \div 2
            lo == {e \in es : \E j \in 1..m : ks[j] = e[1]}
        IN
        [H EXCEPT
            !.leaf = Append(Append(lh, NewLeaf(lo, a + 1)), NewLeaf(es \ lo, lf.next)),
            !.node = [H.node EXCEPT
                ![n].kids = SubSeqTo(nd.kids, i - 1) \o <<a, a + 1>> \o SubSeqFrom(nd.kids, i + 1),
                ![n].seps = SubSeqTo(nd.seps, i - 1) \o <<ks[m]>> \o SubSeqFrom(nd.seps, i),
                ![n].latch = NoThread]])

InsertResult(H, tg, k, v) == [h |-> H, tag |-> tg, entry |-> <<k, v>>]

\* LeafNode::insert up to the staging of a split.  "Staged" is not a return:
\* the caller t holds the split-staging slot of n and integrates next.
LeafNodeInsert(H, n, k, v, t) ==
    LET nd == H.node[n]
        l  == nd.kids[Route(nd, k)]
        lf == H.leaf[l]
    IN  IF k \in LiveKeys(lf) THEN InsertResult(H, "Duplicated", k, v)
        ELSE IF ~LeafFull(lf)
             THEN InsertResult([H EXCEPT !.leaf[l] = LeafInsert(lf, k, v)], "Ok", k, v)
        ELSE IF Len(nd.kids) >= Fanout THEN InsertResult(H, "Full", k, v)
        ELSE IF nd.latch # NoThread THEN InsertResult(H, "Retry", k, v)
        ELSE InsertResult([H EXCEPT !.node[n].latch = t], "Staged", k, v)

\* Node::insert
RECURSIVE NodeInsert(_, _, _, _, _)
NodeInsert(H, n, k, v, t) ==
    LET nd == H.node[n]
    IN  IF nd.obs THEN InsertResult(H, "Retry", k, v)
        ELSE IF nd.floor = 0 THEN LeafNodeInsert(H, n, k, v, t)
        ELSE LET i == Route(nd, k)
                 r == NodeInsert(H, nd.kids[i], k, v, t)
             IN  IF r.tag # "Full" THEN r
                 ELSE IF Len(nd.kids) >= Fanout THEN r
                 ELSE NodeInsert(SplitChild(H, n, i), n, k, v, t)

\* The leaf node in which thread t holds the staging slot (Null if none).
StagedNode(H, t) ==
    LET S == {n \in DOMAIN H.node : H.node[n].latch = t}
    IN  IF S = {} THEN Null ELSE CHOOSE n \in S : TRUE

\* The second phase of Node::insert: the staged split is integrated, unless
\* the node was retired meanwhile.
NodeInsertIntegrate(H, k, v, t, relink) ==
    LET n == StagedNode(H, t)
    IN  IF H.node[n].obs
        THEN InsertResult([H EXCEPT !.node[n].latch = NoThread], "Retry", k, v)
        ELSE InsertResult(IntegrateSplit(H, n, k, v, relink), "Ok", k, v)

RemoveResult(H, tg, rm) == [h |-> H, tag |-> tg, removed |-> rm]

\* Child i of node n (n has another child) is unlinked from n and retired; the
\* forward links that led to its leaves skip them.
DropChild(H, n, i) ==
    LET nd == H.node[n]
        c  == nd.kids[i]
        ls == IF nd.floor = 0 THEN {c} ELSE LeavesUnder(H, c)
        l  == CHOOSE x \in ls : TRUE
        h1 == IF nd.floor = 0 THEN [H EXCEPT !.leaf[c].obs = TRUE] ELSE Retire(H, c)
    IN  [h1 EXCEPT
            !.leaf = [Relink(H.leaf, l, H.leaf[l].next) EXCEPT ![l].obs = TRUE],
            !.node[n].kids = RemoveAt(nd.kids, i),
            !.node[n].seps = RemoveAt(nd.seps, IF i <= Len(nd.seps) THEN i ELSE i - 1)]

\* LeafNode::remove: the entry is retired in its leaf; a leaf left without a
\* live entry is coalesced, which needs the staging slot of the node.
LeafNodeRemove(H, n, k) ==
    LET nd == H.node[n]
        i  == Route(nd, k)
        l  == nd.kids[i]
        rm == k \in LiveKeys(H.leaf[l])
        h1 == [H EXCEPT !.leaf[l] = LeafRemove(@, k)]
    IN  IF h1.leaf[l].ents # {} THEN RemoveResult(h1, "Ok", rm)
        ELSE IF nd.latch # NoThread THEN RemoveResult(h1, "Retry", rm)
        ELSE IF Len(nd.kids) > 1
             THEN Eager(h1, LAMBDA h : RemoveResult(DropChild(h, n, i), "Ok", rm))
        ELSE RemoveResult(h1, "Coalesce", rm)

\* Node::remove
RECURSIVE NodeRemove(_, _, _)
NodeRemove(H, n, k) ==
    LET nd == H.node[n]
    IN  IF nd.obs THEN RemoveResult(H, "Retry", FALSE)
        ELSE IF nd.floor = 0 THEN LeafNodeRemove(H, n, k)
        ELSE LET i == Route(nd, k)
                 r == NodeRemove(H, nd.kids[i], k)
             IN  IF r.tag # "Coalesce" THEN r
                 ELSE IF ~IsEmptyNode(r.h, nd.kids[i]) THEN RemoveResult(r.h, "Ok", r.removed)
                 ELSE IF Len(nd.kids) = 1 THEN r
                 ELSE LET h2 == DropChild(r.h, n, i)
                      IN  RemoveResult(h2,
                              IF Len(h2.node[n].kids) = 1 THEN "Coalesce" ELSE "Ok",
                              r.removed)

\* Node::update_root (root-retire): by a CAS of the root pointer from r, an
\* empty root is replaced by null and a root with a sole child node by that
\* child.
UpdateRoot(H, r) ==
    IF r = Null \/ H.root # r THEN H
    ELSE IF IsEmptyNode(H, r) THEN [Retire(H, r) EXCEPT !.root = Null]
    ELSE IF H.node[r].floor > 0 /\ Len(H.node[r].kids) = 1
         THEN [H EXCEPT !.node[r].obs = TRUE, !.root = H.node[r].kids[1]]
    ELSE H

\* Node::remove_root: the whole tree is retired.
RemoveRoot(H) ==
    IF H.root = Null THEN H ELSE [Retire(H, H.root) EXCEPT !.root = Null]

\* Node::floor
NodeFloor(H, n) == H.node[n].floor

\* ------------------------------------------------------------ calls and results
\* What a call returns: Ok / Err((k, v)) for insert, True / False for remove,
\* None / Some(f(k, v)) for read.
Ret(tg, k, v) == [tag |-> tg, k |-> k, v |-> v]
NoRet == Ret("none", 0, 0)
RetBool(b) == Ret(IF b THEN "True" ELSE "False", 0, 0)

\* The closure a caller passes to read.
UserF(k, v) == 10 * k + v

IdleLocals ==
    [pc |-> "idle", op |-> "none", key |-> 0, value |-> 0, root_node |-> Null,
     has_been_removed |-> FALSE, ret |-> NoRet,
     leaf_scanner |-> NoScanner, scanner |-> NoScanner, new_scanner |-> NoScanner,
     min_allowed_key |-> 0, seeking |-> FALSE]

IdleBook ==
    [k0 |-> 0, v0 |-> 0, expect |-> NoRet, lin |-> FALSE, restarts |-> 0,
     fcalls |-> 0, retired |-> FALSE, after |-> "none", live |-> NoVal, free |-> FALSE,
     yielded |-> <<>>, stable |-> {}, got |-> <<0, NoVal>>,
     split |-> [root |-> Null, won |-> FALSE, rise |-> 0, same |-> TRUE],
     why |-> "none", retires |-> 0, passes |-> <<>>]

\* The reference: a sequential ordered map.
AbsInsert(m, k, v) ==
    IF m[k] = NoVal THEN [map |-> [m EXCEPT ![k] = v], ret |-> Ret("Ok", 0, 0)]
    ELSE [map |-> m, ret |-> Ret("Err", k, v)]

AbsRemove(m, k) == [map |-> [m EXCEPT ![k] = NoVal], ret |-> RetBool(m[k] # NoVal)]

AbsRead(m, k) ==
    [map |-> m,
     ret |-> IF m[k] = NoVal THEN Ret("None", 0, 0) ELSE Ret("Some", 0, UserF(k, m[k]))]

AbsApply(m, op, k, v) ==
    CASE op = "insert" -> AbsInsert(m, k, v)
      [] op = "remove" -> AbsRemove(m, k)
      [] op = "read" -> AbsRead(m, k)
      [] op = "clear" -> [map |-> [x \in Keys |-> NoVal], ret |-> NoRet]
      [] OTHER -> [map |-> m, ret |-> NoRet]

EmptyMap == [k \in Keys |-> NoVal]

\* The tree read as a map.
TreeMap(H) ==
    [k \in Keys |->
        IF \E e \in TreeEntries(H) : e[1] = k
        THEN (CHOOSE e \in TreeEntries(H) : e[1] = k)[2] ELSE NoVal]

\* The restart counter of a call, counted up to MaxRestarts.
Bump(x) == IF x < MaxRestarts THEN x + 1 ELSE x

SetHeap(H) == leaf' = H.leaf /\ node' = H.node /\ root' = H.root

\* Bookkeeping: the keys in `gone` have been retired, so no scan in flight
\* counts them as present throughout.
Unstable(g, gone) == [u \in Threads |-> [g[u] EXCEPT !.stable = @ \ gone]]

\* Bookkeeping: the call of thread t takes effect in the reference map now,
\* unless it already has.
LinearizeIn(g, t, b) ==
    IF b.lin THEN abs' = abs /\ gh' = [g EXCEPT ![t] = b]
    ELSE \E a \in {AbsApply(abs, th[t].op, b.k0, b.v0)} :
             /\ abs' = a.map
             /\ gh' = [g EXCEPT ![t] = [b EXCEPT !.lin = TRUE, !.expect = a.ret,
                                                 !.live = TreeMap(Heap)[b.k0]]]

Linearize(t, b) == LinearizeIn(gh, t, b)

NoLinearizeIn(g, t, b) == abs' = abs /\ gh' = [g EXCEPT ![t] = b]

NoLinearize(t, b) == NoLinearizeIn(gh, t, b)

\* A call returns r: the thread is idle again and keeps the result.
Return(t, loc, r) ==
    /\ th' = [th EXCEPT ![t] = [loc EXCEPT !.pc = "idle", !.ret = r]]
    /\ log' = IF mode \in {"seq", "ins", "cons"}
              THEN Append(log, [op |-> loc.op, k |-> gh[t].k0, v |-> gh[t].v0, ret |-> r,
                                free |-> gh[t].free, out |-> <<>>, got |-> <<0, NoVal>>])
              ELSE log

Begin(t, o, k, v, first, fr) ==
    /\ th' = [th EXCEPT ![t] = [IdleLocals EXCEPT !.pc = first, !.op = o, !.key = k, !.value = v]]
    /\ gh' = [gh EXCEPT ![t] = [IdleBook EXCEPT !.k0 = k, !.v0 = v, !.free = fr]]
    /\ UNCHANGED <<leaf, node, root, abs, mode, arc, ah, ag, log>>

\* A caller starts a call of its choice.
Start(t, o, k, v, first) ==
    /\ th[t].pc = "idle"
    /\ script = <<>>
    /\ budget > 0
    /\ budget' = budget - 1
    /\ script' = script
    /\ Begin(t, o, k, v, first, TRUE)

FirstPc(o) ==
    CASE o = "insert" -> "ins_load"
      [] o = "remove" -> "rem_load"
      [] OTHER -> "rd_load"

\* A key no call has inserted or is inserting.
Fresh(k) == abs[k] = NoVal /\ \A u \in Threads : th[u].pc = "idle" \/ gh[u].k0 # k

\* The key the callers of the duplicate-insert driver agree on: the key of a
\* caller that has called, any absent key when none has.
DupKeys ==
    LET S == {gh[u].k0 : u \in {x \in Threads : gh[x].free}}
    IN  IF S = {} THEN {k \in CallKeys : Fresh(k)} ELSE S

\* The entries a caller may insert.  Concurrent callers insert their own
\* number as the value; a caller running alone inserts any value.
InsertMenu(t) ==
    CASE mode = "seq" -> CallKeys \X Values
      [] mode = "ins" -> {k \in Keys : Fresh(k)} \X {t}
      [] mode = "dup" -> IF gh[t].free THEN {} ELSE DupKeys \X {t}
      [] mode \in {"scan", "fuse"} -> IF t = 1 THEN {} ELSE Keys \X {t}
      [] OTHER -> CallKeys \X {t}

\* A variant of DepthOf that returns the floor of the root.
DepthOfFloor(H, root_node) == IF root_node # Null THEN NodeFloor(H, root_node) ELSE 0

\* if !root_node.is_null() { root_node.deref().floor() + 1 } else { 0 }
DepthOf(H, root_node) == IF root_node # Null THEN NodeFloor(H, root_node) + 1 ELSE 0

\* Why Node::insert or Node::remove of key k on node n returns Retry in tree
\* H: a node on the way is obsolete ("retired"), or the staging slot of the
\* leaf node is taken ("staged").
RECURSIVE RetryCause(_, _, _)
RetryCause(H, n, k) ==
    LET nd == H.node[n]
    IN  IF nd.obs THEN "retired"
        ELSE IF nd.floor > 0 THEN RetryCause(H, nd.kids[Route(nd, k)], k)
        ELSE IF nd.latch # NoThread THEN "staged"
        ELSE "spurious"

\* What the restart after split_root on r is due to, H being the tree after
\* the call: the root was replaced ("full"), or r lost a child ("merged").
FullCause(H, r) ==
    IF H.root # r THEN "full"
    ELSE IF Len(H.node[r].kids) < Fanout THEN "merged"
    ELSE "spurious"

\* ------------------------------------------------------------ TreeIndex::insert
CallInsert(t) == \E e \in InsertMenu(t) : Start(t, "insert", e[1], e[2], "ins_load")

\* let mut root_node = self.root.load(Acquire, &guard)
InsertLoadRoot(t) ==
    /\ th[t].pc = "ins_load"
    /\ th' = [th EXCEPT ![t].root_node = root,
                        ![t].pc = IF root = Null THEN "ins_cas" ELSE "ins_node"]
    /\ UNCHANGED <<leaf, node, root, gh, abs, budget, mode, arc, ah, ag, script, log>>

\* A variant of InsertCasRoot that stores the new root without comparing.
InsertCasRootStore(t) ==
    /\ th[t].pc = "ins_cas"
    /\ SetHeap(AllocRoot(Heap))
    /\ th' = [th EXCEPT ![t].root_node = AllocRoot(Heap).root, ![t].pc = "ins_node"]
    /\ gh' = gh
    /\ UNCHANGED <<abs, budget, mode, arc, ah, ag, script, log>>

\* self.root.compare_and_set(root_node, new_root, ..): Ok => root_node =
\* new_root, Err => continue
InsertCasRoot(t) ==
    /\ th[t].pc = "ins_cas"
    /\ IF root = th[t].root_node
       THEN /\ SetHeap(AllocRoot(Heap))
            /\ th' = [th EXCEPT ![t].root_node = AllocRoot(Heap).root, ![t].pc = "ins_node"]
            /\ gh' = gh
       ELSE /\ UNCHANGED <<leaf, node, root>>
            /\ th' = [th EXCEPT ![t].pc = "ins_load"]
            /\ gh' = [gh EXCEPT ![t].restarts = Bump(@), ![t].why = "cas"]
    /\ UNCHANGED <<abs, budget, mode, arc, ah, ag, script, log>>

\* The arms of the match that do not return.
InsertMatchOn(t, r) ==
    CASE r.tag = "Full" ->
            /\ th' = [th EXCEPT ![t].key = r.entry[1], ![t].value = r.entry[2],
                                ![t].pc = "ins_split"]
            /\ NoLinearize(t, gh[t])
            /\ log' = log
      [] r.tag = "Retry" ->
            /\ th' = [th EXCEPT ![t].key = r.entry[1], ![t].value = r.entry[2],
                                ![t].pc = "ins_load"]
            /\ NoLinearize(t, [gh[t] EXCEPT
                                 !.restarts = Bump(@),
                                 !.why = IF th[t].pc = "ins_integrate" THEN "retired"
                                         ELSE RetryCause(Heap, th[t].root_node, th[t].key)])
            /\ log' = log
      [] OTHER ->
            /\ th' = [th EXCEPT ![t].pc = "ins_integrate"]
            /\ NoLinearize(t, gh[t])
            /\ log' = log

\* A variant of InsertMatch that reports a duplicate as a success.
InsertMatchDupOk(t, r) ==
    IF r.tag \in {"Ok", "Duplicated"}
    THEN Return(t, th[t], Ret("Ok", 0, 0)) /\ Linearize(t, gh[t])
    ELSE InsertMatchOn(t, r)

\* A variant of InsertMatch that does not hand the rejected value back.
InsertMatchErrDrops(t, r) ==
    CASE r.tag = "Ok" -> Return(t, th[t], Ret("Ok", 0, 0)) /\ Linearize(t, gh[t])
      [] r.tag = "Duplicated" ->
            Return(t, th[t], Ret("Err", r.entry[1], NoVal)) /\ Linearize(t, gh[t])
      [] OTHER -> InsertMatchOn(t, r)

\* match root_node_ref.insert(key, value, &guard) { .. }: what the call does
\* with the result r of Node::insert.
InsertMatch(t, r) ==
    CASE r.tag = "Ok" ->
            /\ Return(t, th[t], Ret("Ok", 0, 0))
            /\ Linearize(t, gh[t])
      [] r.tag = "Duplicated" ->
            /\ Return(t, th[t], Ret("Err", r.entry[1], r.entry[2]))
            /\ Linearize(t, gh[t])
      [] OTHER -> InsertMatchOn(t, r)

InsertNode(t) ==
    /\ th[t].pc = "ins_node"
    /\ \E r \in {NodeInsert(Heap, th[t].root_node, th[t].key, th[t].value, t)} :
           SetHeap(r.h) /\ InsertMatch(t, r)
    /\ UNCHANGED <<budget, mode, arc, ah, ag, script>>

\* Still inside root_node_ref.insert: the staged split is integrated.
InsertIntegrate(t) ==
    /\ th[t].pc = "ins_integrate"
    /\ \E relink \in BOOLEAN :
         \E r \in {NodeInsertIntegrate(Heap, th[t].key, th[t].value, t, relink)} :
             SetHeap(r.h) /\ InsertMatch(t, r)
    /\ UNCHANGED <<budget, mode, arc, ah, ag, script>>

\* What a call of split_root on root r did: H0 is the tree before, H1 after.
SplitNote(H0, H1, r) ==
    [root |-> r, won |-> H1.root # H0.root,
     rise |-> DepthOf(H1, H1.root) - DepthOf(H0, H0.root),
     same |-> TreeEntries(H1) = TreeEntries(H0)]

\* A variant of InsertSplitRoot that splits the root in place now.
InsertSplitRootNow(t) ==
    /\ th[t].pc = "ins_split"
    /\ root # Null
    /\ SetHeap(SplitRoot(Heap, root))
    /\ th' = [th EXCEPT ![t].pc = "ins_load"]
    /\ gh' = [gh EXCEPT ![t].restarts = Bump(@),
                        ![t].split = SplitNote(Heap, SplitRoot(Heap, root), th[t].root_node),
                        ![t].why = FullCause(SplitRoot(Heap, root), th[t].root_node)]
    /\ UNCHANGED <<abs, budget, mode, arc, ah, ag, script, log>>

\* root_node_ref.split_root(&self.root, &guard), then the loop restarts
InsertSplitRoot(t) ==
    /\ th[t].pc = "ins_split"
    /\ SetHeap(SplitRoot(Heap, th[t].root_node))
    /\ th' = [th EXCEPT ![t].pc = "ins_load"]
    /\ gh' = [gh EXCEPT ![t].restarts = Bump(@),
                        ![t].split = SplitNote(Heap, SplitRoot(Heap, th[t].root_node),
                                               th[t].root_node),
                        ![t].why = FullCause(SplitRoot(Heap, th[t].root_node),
                                             th[t].root_node)]
    /\ UNCHANGED <<abs, budget, mode, arc, ah, ag, script, log>>

\* ------------------------------------------------------------ TreeIndex::remove
RemoveMenu(t) ==
    CASE mode \in {"scan", "fuse"} -> IF t = 1 THEN {} ELSE Keys
      [] OTHER -> CallKeys

CallRemove(t) == \E k \in RemoveMenu(t) : Start(t, "remove", k, 0, "rem_load")

\* let mut has_been_removed = false; let mut root_node = self.root.load(..)
RemoveLoadRoot(t) ==
    /\ th[t].pc = "rem_load"
    /\ th' = [th EXCEPT ![t].root_node = root, ![t].has_been_removed = FALSE,
                        ![t].pc = "rem_node"]
    /\ IF root = Null THEN Linearize(t, gh[t]) ELSE NoLinearize(t, gh[t])
    /\ UNCHANGED <<leaf, node, root, budget, mode, arc, ah, ag, script, log>>

\* A variant of NoteRemoved that never sets the flag.
NoteRemovedLost(has_been_removed, removed) == has_been_removed

\* A variant of RemoveOkResult that forgets the flag.
RemoveOkResultLast(removed, has_been_removed) == removed

\* if removed && !has_been_removed { has_been_removed = true; }
NoteRemoved(has_been_removed, removed) ==
    IF removed /\ ~has_been_removed THEN TRUE ELSE has_been_removed

\* Ok(removed) => return removed || has_been_removed
RemoveOkResult(removed, has_been_removed) == removed \/ has_been_removed

\* What a later attempt of a call that already retired an entry observes.
Observed(b, what) == IF b.retired THEN [b EXCEPT !.after = what] ELSE b

\* Bookkeeping: the call has retired one more entry.
Retires(b) == [b EXCEPT !.retires = @ + 1]

\* One turn of the loop: the null check, Node::remove on the root and the
\* match on its result.
RemoveNode(t) ==
    /\ th[t].pc = "rem_node"
    /\ IF th[t].root_node = Null
       THEN /\ Return(t, th[t], RetBool(th[t].has_been_removed))
            /\ NoLinearize(t, Observed(gh[t], "null"))
            /\ UNCHANGED <<leaf, node, root>>
       ELSE \E r \in {NodeRemove(Heap, th[t].root_node, th[t].key)} :
            \E w \in {IF r.tag = "Retry"
                      THEN [gh[t] EXCEPT !.why = RetryCause(Heap, th[t].root_node, th[t].key)]
                      ELSE gh[t]} :
            \E b \in {IF r.removed THEN Retires(w) ELSE Observed(w, r.tag)} :
            \E g \in {Unstable(gh, IF r.removed THEN {th[t].key} ELSE {})} :
            \E h \in {NoteRemoved(th[t].has_been_removed, r.removed)} :
                /\ SetHeap(r.h)
                /\ CASE r.tag = "Ok" ->
                          /\ Return(t, th[t],
                                 RetBool(RemoveOkResult(r.removed, th[t].has_been_removed)))
                          /\ LinearizeIn(g, t, b)
                     [] r.tag = "Coalesce" ->
                          /\ th' = [th EXCEPT ![t].has_been_removed = h, ![t].pc = "rem_update"]
                          /\ LinearizeIn(g, t, [b EXCEPT !.retired = @ \/ r.removed])
                          /\ log' = log
                     [] OTHER ->
                          /\ th' = [th EXCEPT ![t].has_been_removed = h, ![t].pc = "rem_reload"]
                          /\ IF r.removed
                             THEN LinearizeIn(g, t, [b EXCEPT !.retired = TRUE,
                                                              !.restarts = Bump(@)])
                             ELSE NoLinearizeIn(g, t, [b EXCEPT !.restarts = Bump(@)])
                          /\ log' = log
    /\ UNCHANGED <<budget, mode, arc, ah, ag, script>>

\* Node::update_root(root_node, &self.root, &guard); return has_been_removed
RemoveUpdateRoot(t) ==
    /\ th[t].pc = "rem_update"
    /\ SetHeap(UpdateRoot(Heap, th[t].root_node))
    /\ Return(t, th[t], RetBool(th[t].has_been_removed))
    /\ UNCHANGED <<gh, abs, budget, mode, arc, ah, ag, script>>

\* A variant of RemoveReload that keeps the root it loaded first.
RemoveReloadStale(t) ==
    /\ th[t].pc = "rem_reload"
    /\ th' = [th EXCEPT ![t].pc = "rem_node"]
    /\ NoLinearize(t, gh[t])
    /\ UNCHANGED <<leaf, node, root, budget, mode, arc, ah, ag, script, log>>

\* let root_node_new = self.root.load(Acquire, &guard); root_node = root_node_new
RemoveReload(t) ==
    /\ th[t].pc = "rem_reload"
    /\ th' = [th EXCEPT ![t].root_node = root, ![t].pc = "rem_node"]
    /\ IF root = Null THEN Linearize(t, gh[t]) ELSE NoLinearize(t, gh[t])
    /\ UNCHANGED <<leaf, node, root, budget, mode, arc, ah, ag, script, log>>

\* ------------------------------------------------------------ TreeIndex::read
CallRead(t) == \E k \in CallKeys : Start(t, "read", k, 0, "rd_load")

\* let root_node = self.root.load(..); if root_node.is_null() { return None; }
ReadLoadRoot(t) ==
    /\ th[t].pc = "rd_load"
    /\ IF root = Null
       THEN /\ Return(t, th[t], Ret("None", 0, 0))
            /\ Linearize(t, gh[t])
       ELSE /\ th' = [th EXCEPT ![t].root_node = root, ![t].pc = "rd_search"]
            /\ NoLinearize(t, gh[t])
            /\ log' = log
    /\ UNCHANGED <<leaf, node, root, budget, mode, arc, ah, ag, script>>

\* The arms of the match on Ok.
ReadMatchOk(t, r) ==
    IF r.val # NoVal
    THEN /\ Return(t, th[t], Ret("Some", 0, UserF(th[t].key, r.val)))
         /\ Linearize(t, [gh[t] EXCEPT !.fcalls = @ + 1])
    ELSE /\ Return(t, th[t], Ret("None", 0, 0))
         /\ Linearize(t, gh[t])

\* The arm of the match on Err(Retry): continue.
ReadMatchRetry(t) ==
    /\ th' = [th EXCEPT ![t].pc = "rd_load"]
    /\ NoLinearize(t, [gh[t] EXCEPT !.restarts = Bump(@)])
    /\ log' = log

\* A variant of ReadMatch that starts over when the key is not found.
ReadMatchRestartOnNone(t, r) ==
    IF r.tag = "Ok" /\ r.val # NoVal THEN ReadMatchOk(t, r) ELSE ReadMatchRetry(t)

\* A variant of ReadMatch that reports a retry as an absent key.
ReadMatchRetryNone(t, r) ==
    IF r.tag = "Ok" THEN ReadMatchOk(t, r)
    ELSE Return(t, th[t], Ret("None", 0, 0)) /\ Linearize(t, gh[t])

\* match root_node.deref().search(key, &guard) { Ok(result) => .., Err(Retry)
\* => continue }: what the call does with the result r of Node::search.
ReadMatch(t, r) ==
    IF r.tag = "Ok" THEN ReadMatchOk(t, r) ELSE ReadMatchRetry(t)

ReadSearch(t) ==
    /\ th[t].pc = "rd_search"
    /\ ReadMatch(t, NodeSearch(Heap, th[t].root_node, th[t].key))
    /\ UNCHANGED <<leaf, node, root, budget, mode, arc, ah, ag, script>>

\* ------------------------------------------------------------ Scanner
\* TreeIndex::iter, Scanner::new: leaf_scanner: None.  The first thread scans.
CallIter(t) ==
    /\ t = 1
    /\ script = <<>>
    /\ th[t].pc = "idle"
    /\ \/ mode \in {"scan", "fuse"} /\ ~gh[t].free /\ budget' = budget
       \/ mode = "seq" /\ budget > 0 /\ budget' = budget - 1
    /\ th' = [th EXCEPT ![t] = [IdleLocals EXCEPT !.pc = "sc_ready", !.op = "scan"]]
    /\ gh' = [gh EXCEPT ![t] = [IdleBook EXCEPT !.free = TRUE,
                                   !.stable = {e[1] : e \in TreeEntries(Heap)}]]
    /\ UNCHANGED <<leaf, node, root, abs, mode, arc, ah, ag, script, log>>

\* if self.leaf_scanner.is_none() { loop { .. } }
ScanNextStep(H, loc) ==
    [loc EXCEPT !.pc = IF loc.leaf_scanner = NoScanner THEN "sc_load" ELSE "sc_adv",
                !.ret = NoRet]

\* let root_node = self.tree.root.load(..); if root_node.is_null() { return None; }
ScanLoadStep(H, loc) ==
    IF H.root = Null
    THEN [loc EXCEPT !.pc = "idle", !.ret = Ret("None", 0, 0)]
    ELSE [loc EXCEPT !.pc = "sc_min", !.root_node = H.root]

\* if let Ok(leaf_scanner) = root_node.min(&self.guard) { .. break; }
ScanMinStep(H, loc) ==
    LET r == NodeMin(H, loc.root_node)
    IN  IF r.tag = "Ok" THEN [loc EXCEPT !.pc = "sc_adv", !.leaf_scanner = r.ls]
        ELSE [loc EXCEPT !.pc = "sc_load"]

\* A variant of ScanAdvanceStep that leaves a leaf after its first entry.
ScanAdvanceStepLeaves(H, loc) ==
    LET nx == IF loc.leaf_scanner.key = 0 THEN LeafScannerNext(H, loc.leaf_scanner)
              ELSE NoScanner
    IN  IF nx # NoScanner
        THEN [loc EXCEPT !.pc = "sc_ready", !.leaf_scanner = nx,
                         !.ret = Ret("Some", nx.key, nx.val)]
        ELSE [loc EXCEPT !.pc = "sc_jump", !.leaf_scanner = NoScanner,
                         !.scanner = loc.leaf_scanner,
                         !.min_allowed_key = LeafScannerGet(loc.leaf_scanner)[1]]

\* if let Some(mut scanner) = self.leaf_scanner.take() { let min_allowed_key =
\* scanner.get().map(..); if let Some(result) = scanner.next() { .. } .. }
ScanAdvanceStep(H, loc) ==
    LET nx == LeafScannerNext(H, loc.leaf_scanner)
    IN  IF nx # NoScanner
        THEN [loc EXCEPT !.pc = "sc_ready", !.leaf_scanner = nx,
                         !.ret = Ret("Some", nx.key, nx.val)]
        ELSE [loc EXCEPT !.pc = "sc_jump", !.leaf_scanner = NoScanner,
                         !.scanner = loc.leaf_scanner,
                         !.min_allowed_key = LeafScannerGet(loc.leaf_scanner)[1]]

\* A variant of ScanJumpStep that never follows the forward link.
ScanJumpStepStops(H, loc) == [loc EXCEPT !.pc = "idle", !.ret = Ret("None", 0, 0)]

\* while let Some(mut new_scanner) = scanner.jump(&self.guard).take() { .. } None
ScanJumpStep(H, loc) ==
    LET j == LeafScannerJump(H, loc.scanner)
    IN  IF j = NoScanner THEN [loc EXCEPT !.pc = "idle", !.ret = Ret("None", 0, 0)]
        ELSE [loc EXCEPT !.pc = "sc_filter", !.new_scanner = j]

\* A variant of Allowed that lets every entry pass.
AllowedAlways(min_allowed_key, key) == TRUE

\* min_allowed_key.as_ref().map_or_else(|| true, |&key| key.cmp(entry.0) == Less)
Allowed(min_allowed_key, key) == min_allowed_key = 0 \/ min_allowed_key < key

\* while let Some(entry) = new_scanner.next() { if .. { return Some(entry); } }
\* scanner = new_scanner;
ScanFilterStep(H, loc) ==
    LET nx == LeafScannerNext(H, loc.new_scanner)
    IN  IF nx = NoScanner THEN [loc EXCEPT !.pc = "sc_jump", !.scanner = loc.new_scanner]
        ELSE IF Allowed(loc.min_allowed_key, nx.key)
             THEN [loc EXCEPT !.pc = "sc_ready", !.leaf_scanner = nx,
                              !.ret = Ret("Some", nx.key, nx.val)]
        ELSE [loc EXCEPT !.new_scanner = nx]

\* The scanner of thread t has taken a step that leaves it as loc; what a
\* call of next returns is recorded.
Scanned(t, loc) ==
    LET out == IF loc.ret.tag = "Some" /\ ~loc.seeking
               THEN Append(gh[t].yielded, <<loc.ret.k, loc.ret.v>>)
               ELSE gh[t].yielded
    IN  /\ th' = [th EXCEPT ![t] = loc]
        /\ gh' = [gh EXCEPT ![t].yielded = out]
        /\ log' = IF mode = "seq" /\ loc.pc = "idle"
                  THEN Append(log, [op |-> loc.op, k |-> gh[t].k0, v |-> gh[t].v0,
                                    ret |-> loc.ret, free |-> gh[t].free, out |-> out,
                                    got |-> gh[t].got])
                  ELSE log
        /\ UNCHANGED <<leaf, node, root, abs, budget, mode, arc, ah, ag, script>>

\* Scanner::next is called.
ScanNext(t) ==
    /\ th[t].pc = "sc_ready"
    /\ ~th[t].seeking
    /\ Scanned(t, ScanNextStep(Heap, th[t]))

ScanLoadRoot(t) == th[t].pc = "sc_load" /\ Scanned(t, ScanLoadStep(Heap, th[t]))

ScanMin(t) == th[t].pc = "sc_min" /\ Scanned(t, ScanMinStep(Heap, th[t]))

ScanAdvance(t) == th[t].pc = "sc_adv" /\ Scanned(t, ScanAdvanceStep(Heap, th[t]))

ScanJump(t) == th[t].pc = "sc_jump" /\ Scanned(t, ScanJumpStep(Heap, th[t]))

ScanFilter(t) == th[t].pc = "sc_filter" /\ Scanned(t, ScanFilterStep(Heap, th[t]))

\* The scanner whose next() has returned None is kept and asked again.
AfterNone(t) ==
    /\ mode = "fuse"
    /\ th[t].pc = "idle"
    /\ th[t].op = "scan"
    /\ th[t].ret.tag = "None"
    /\ Len(gh[t].passes) + 1 < MaxPasses

\* Bookkeeping: the keys yielded up to the None are set aside and the keys
\* present now are the ones the next pass can be held to.
NextPass(t) ==
    gh' = [gh EXCEPT ![t].passes = Append(@, gh[t].yielded), ![t].yielded = <<>>,
                     ![t].stable = {e[1] : e \in TreeEntries(Heap)}]

\* A variant of ScanNextAfterNone that returns None without a look at the tree.
ScanNextFused(t) ==
    /\ AfterNone(t)
    /\ NextPass(t)
    /\ UNCHANGED <<leaf, node, root, th, abs, budget, mode, arc, ah, ag, script, log>>

\* Scanner::next is called after it has returned None: leaf_scanner is None
\* as it was when the Scanner was made.
ScanNextAfterNone(t) ==
    /\ AfterNone(t)
    /\ th' = [th EXCEPT ![t] = ScanNextStep(Heap, th[t])]
    /\ NextPass(t)
    /\ UNCHANGED <<leaf, node, root, abs, budget, mode, arc, ah, ag, script, log>>

\* One step of a scanner over the heap H.
ScanStep(H, loc) ==
    CASE loc.pc = "sc_ready" -> ScanNextStep(H, loc)
      [] loc.pc = "sc_load" -> ScanLoadStep(H, loc)
      [] loc.pc = "sc_min" -> ScanMinStep(H, loc)
      [] loc.pc = "sc_adv" -> ScanAdvanceStep(H, loc)
      [] loc.pc = "sc_jump" -> ScanJumpStep(H, loc)
      [] OTHER -> ScanFilterStep(H, loc)

\* What a scanner yields up to its first None when nothing else runs.
RECURSIVE ScanRun(_, _, _)
ScanRun(H, loc, out) ==
    IF loc.pc = "idle" THEN out
    ELSE LET n == ScanStep(H, loc)
         IN  ScanRun(H, n, IF n.ret.tag = "Some" /\ n.pc = "sc_ready"
                           THEN Append(out, <<n.ret.k, n.ret.v>>) ELSE out)

\* TreeIndex::len: self.iter().count()
TreeLen(H) == Len(ScanRun(H, [IdleLocals EXCEPT !.pc = "sc_ready", !.op = "scan"], <<>>))

\* ------------------------------------------------------------ Scanner::from
\* TreeIndex::from, Scanner::from: leaf_scanner: None.
CallFrom(t) ==
    /\ t = 1
    /\ mode = "seq"
    /\ script = <<>>
    /\ th[t].pc = "idle"
    /\ budget > 0
    /\ budget' = budget - 1
    /\ \E k \in CallKeys :
          /\ th' = [th EXCEPT ![t] = [IdleLocals EXCEPT !.pc = "fr_load", !.op = "from",
                                                        !.key = k, !.seeking = TRUE]]
          /\ gh' = [gh EXCEPT ![t] = [IdleBook EXCEPT !.free = TRUE, !.k0 = k]]
    /\ UNCHANGED <<leaf, node, root, abs, mode, arc, ah, ag, script, log>>

\* let root_node = tree.root.load(..); if root_node.is_null() { return None; }
FromLoadStep(H, loc) ==
    IF H.root = Null
    THEN [loc EXCEPT !.pc = "idle", !.ret = Ret("None", 0, 0)]
    ELSE [loc EXCEPT !.pc = "fr_max", !.root_node = H.root]

\* if let Ok(leaf_scanner) = root_node.max_less(min_allowed_key, ..) { .. break; }
FromMaxLessStep(H, loc) ==
    LET r == NodeMaxLess(H, loc.root_node, loc.key)
    IN  IF r.tag = "Ok" THEN ScanNextStep(H, [loc EXCEPT !.leaf_scanner = r.ls])
        ELSE [loc EXCEPT !.pc = "fr_load"]

\* A variant of FromSeek that passes over the key itself.
FromSeekGreater(min_allowed_key, key) == key > min_allowed_key

\* A variant of FromSeek that takes the first entry.
FromSeekAny(min_allowed_key, key) == TRUE

\* if key_ref.cmp(min_allowed_key) != std::cmp::Ordering::Less { return Some(scanner); }
FromSeek(min_allowed_key, key) == key >= min_allowed_key

\* while let Some((key_ref, _)) = scanner.next() { if .. { return Some(scanner); } }
FromCheckStep(H, loc) ==
    IF FromSeek(loc.key, loc.ret.k) THEN [loc EXCEPT !.seeking = FALSE]
    ELSE ScanNextStep(H, loc)

FromLoadRoot(t) == th[t].pc = "fr_load" /\ Scanned(t, FromLoadStep(Heap, th[t]))

FromMaxLess(t) == th[t].pc = "fr_max" /\ Scanned(t, FromMaxLessStep(Heap, th[t]))

\* The entry scanner.next() has returned inside Scanner::from is compared
\* with the key; when from returns the scanner, its caller calls get().
FromCheck(t) ==
    /\ th[t].pc = "sc_ready"
    /\ th[t].seeking
    /\ LET loc == FromCheckStep(Heap, th[t])
       IN  /\ th' = [th EXCEPT ![t] = loc]
           /\ gh' = [gh EXCEPT ![t].got =
                        IF loc.seeking THEN @ ELSE LeafScannerGet(loc.leaf_scanner)]
    /\ UNCHANGED <<leaf, node, root, abs, budget, mode, arc, ah, ag, script, log>>

\* ------------------------------------------------------------ TreeIndex::clear, depth
CallClear(t) ==
    /\ t = 1
    /\ mode = "seq"
    /\ Start(t, "clear", 0, 0, "clr")

\* A variant of TreeClear that leaves the tree as it is.
TreeClearNot(t) ==
    /\ th[t].pc = "clr"
    /\ Return(t, th[t], Ret("Unit", 0, 0))
    /\ UNCHANGED <<leaf, node, root, gh, abs, budget, mode, arc, ah, ag, script>>

\* let guard = crossbeam_epoch::pin(); Node::remove_root(&self.root, &guard);
TreeClear(t) ==
    /\ th[t].pc = "clr"
    /\ SetHeap(RemoveRoot(Heap))
    /\ Return(t, th[t], Ret("Unit", 0, 0))
    /\ UNCHANGED <<gh, abs, budget, mode, arc, ah, ag, script>>

CallDepth(t) ==
    /\ t = 1
    /\ mode = "seq"
    /\ Start(t, "depth", 0, 0, "dep")

\* let root_node = self.root.load(Acquire, &guard); ..
TreeDepth(t) ==
    /\ th[t].pc = "dep"
    /\ Return(t, [th[t] EXCEPT !.root_node = root], Ret("Depth", 0, DepthOf(Heap, root)))
    /\ UNCHANGED <<leaf, node, root, gh, abs, budget, mode, arc, ah, ag, script>>

\* ------------------------------------------------------------ Arc (ebr/arc.rs)
\* Underlying::new: the instance with a reference count of one.  state is
\* "alive", "collected" (passed to the reclaimer) or "destroyed"; waiting are
\* the threads whose Barrier the reclaimer waits for.
NewUnderlying == [ref_cnt |-> 1, state |-> "alive", waiting |-> {}]

\* What a thread holds: Arc handles, a Barrier, a Ptr bound to the Barrier,
\* the result of its last try_from, and its position in drop / drop_in_place.
NoHandles == [pc |-> "idle", handles |-> 0, barrier |-> FALSE, ptr |-> FALSE,
              tf |-> "none", before |-> 0, after |-> 0, zeroed |-> FALSE, drops |-> 0]

\* zeroes: times the count fell from positive to zero; collects: times the
\* instance was passed to the reclaimer; frees: times it was destroyed;
\* held: Barriers held when the count fell to zero and not released since;
\* placed: the last completed drop_in_place.
NoPlace == [by |-> NoThread, before |-> 0, drops |-> 0, state |-> "alive", collects |-> 0]

NoHistory == [zeroes |-> 0, collects |-> 0, frees |-> 0, held |-> {}, placed |-> NoPlace]

\* The history counts once, twice as "more than once".
Tally(n) == IF n < 2 THEN n + 1 ELSE n

Counts == 0..MaxRefs

\* A load of the count: of a destroyed instance it is a read of freed memory.
LoadRefCnt(a) == IF a.state = "destroyed" THEN Counts ELSE {a.ref_cnt}

\* Underlying::add_ref
AddRef(c) == c + 1

\* Underlying::drop_ref: the count after the decrement and whether it was the
\* last reference.
DropRef(c) == [cnt |-> IF c = 0 THEN 0 ELSE c - 1, last |-> c = 1]

\* Underlying::try_add_ref through Ptr::get_arc: the count is raised iff it is
\* not zero.
GetArc(c) == IF c # 0 THEN [ok |-> TRUE, cnt |-> c + 1] ELSE [ok |-> FALSE, cnt |-> c]

Barriers == {t \in Threads : ah[t].barrier}

Owned == LET RECURSIVE Sum(_)
             Sum(S) == IF S = {} THEN 0
                       ELSE LET t == CHOOSE x \in S : TRUE IN ah[t].handles + Sum(S \ {t})
         IN Sum(Threads)

TreeUnchanged == UNCHANGED <<leaf, node, root, th, gh, abs, budget, mode, script, log>>

\* impl Clone for Arc
ArcClone(t) ==
    /\ ah[t].pc = "idle"
    /\ ah[t].handles > 0
    /\ Owned < MaxRefs
    /\ \E c \in LoadRefCnt(arc) :
          /\ c < MaxRefs
          /\ arc' = [arc EXCEPT !.ref_cnt = AddRef(c)]
    /\ ah' = [ah EXCEPT ![t].handles = @ + 1]
    /\ UNCHANGED ag
    /\ TreeUnchanged

\* unsafe impl Send for Arc: a handle moves to another thread.
ArcSend(t, u) ==
    /\ t # u
    /\ ah[t].pc = "idle"
    /\ ah[t].handles > 0
    /\ ah' = [ah EXCEPT ![t].handles = @ - 1, ![u].handles = @ + 1]
    /\ UNCHANGED <<arc, ag>>
    /\ TreeUnchanged

\* Barrier::new
BarrierNew(t) ==
    /\ ah[t].pc = "idle"
    /\ ~ah[t].barrier
    /\ ah' = [ah EXCEPT ![t].barrier = TRUE]
    /\ UNCHANGED <<arc, ag>>
    /\ TreeUnchanged

\* The Barrier goes out of scope, and with it the Ptr bound to it.
BarrierDrop(t) ==
    /\ ah[t].pc = "idle"
    /\ ah[t].barrier
    /\ ah' = [ah EXCEPT ![t].barrier = FALSE, ![t].ptr = FALSE, ![t].tf = "none",
                        ![t].before = 0, ![t].after = 0, ![t].zeroed = FALSE]
    /\ arc' = [arc EXCEPT !.waiting = @ \ {t}]
    /\ ag' = [ag EXCEPT !.held = @ \ {t}]
    /\ TreeUnchanged

\* Arc::ptr: Ptr::from(self.instance_ptr.as_ptr())
ArcPtr(t) ==
    /\ ah[t].pc = "idle"
    /\ ah[t].handles > 0
    /\ ah[t].barrier
    /\ ~ah[t].ptr
    /\ ah' = [ah EXCEPT ![t].ptr = TRUE]
    /\ UNCHANGED <<arc, ag>>
    /\ TreeUnchanged

\* A variant of ArcTryFrom that returns a handle whatever the count is.
ArcTryFromAlways(t) ==
    /\ ah[t].pc = "idle"
    /\ ah[t].ptr
    /\ Owned < MaxRefs
    /\ \E c \in LoadRefCnt(arc) :
          /\ c < MaxRefs
          /\ arc' = [arc EXCEPT !.ref_cnt = c + 1]
          /\ ah' = [ah EXCEPT ![t].tf = "Ok", ![t].before = c, ![t].after = c + 1,
                              ![t].zeroed = ag.zeroes > 0, ![t].handles = @ + 1]
    /\ UNCHANGED ag
    /\ TreeUnchanged

\* impl TryFrom<Ptr> for Arc: if let Some(arc) = ptr.get_arc() { Ok(arc) }
\* else { Err(ptr) }
ArcTryFrom(t) ==
    /\ ah[t].pc = "idle"
    /\ ah[t].ptr
    /\ Owned < MaxRefs
    /\ \E c \in LoadRefCnt(arc) :
          /\ c < MaxRefs
          /\ arc' = [arc EXCEPT !.ref_cnt = GetArc(c).cnt]
          /\ ah' = [ah EXCEPT ![t].tf = IF GetArc(c).ok THEN "Ok" ELSE "Err",
                              ![t].before = c, ![t].after = GetArc(c).cnt,
                              ![t].zeroed = ag.zeroes > 0,
                              ![t].handles = IF GetArc(c).ok THEN @ + 1 ELSE @]
    /\ UNCHANGED ag
    /\ TreeUnchanged

\* impl Drop for Arc: if self.underlying().drop_ref() {
ArcDropRef(t) ==
    /\ ah[t].pc = "idle"
    /\ ah[t].handles > 0
    /\ \E c \in LoadRefCnt(arc) :
          /\ arc' = [arc EXCEPT !.ref_cnt = DropRef(c).cnt]
          /\ ah' = [ah EXCEPT ![t].handles = @ - 1,
                              ![t].pc = IF DropRef(c).last THEN "collect" ELSE "idle"]
          /\ ag' = IF DropRef(c).last
                   THEN [ag EXCEPT !.zeroes = Tally(@), !.held = Barriers]
                   ELSE ag
    /\ TreeUnchanged

\* The instance as the reclaimer takes it: it waits for the Barriers that are
\* held now.
Collect(a) == [a EXCEPT !.state = IF @ = "destroyed" THEN @ ELSE "collected",
                        !.waiting = Barriers]

\* A variant of ArcCollect that destroys the instance at once.
ArcCollectFrees(t) ==
    /\ ah[t].pc = "collect"
    /\ arc' = [arc EXCEPT !.state = "destroyed"]
    /\ ah' = [ah EXCEPT ![t].pc = "idle"]
    /\ ag' = [ag EXCEPT !.collects = Tally(@), !.frees = Tally(@)]
    /\ TreeUnchanged

\* let barrier = Barrier::new(); barrier.collect(self.instance_ptr.as_ptr()); }
ArcCollect(t) ==
    /\ ah[t].pc = "collect"
    /\ arc' = Collect(arc)
    /\ ah' = [ah EXCEPT ![t].pc = "idle"]
    /\ ag' = [ag EXCEPT !.collects = Tally(@)]
    /\ TreeUnchanged

\* The reclaimer destroys a collected instance once no Barrier it waits for
\* is held.
Reclaim ==
    /\ arc.state = "collected"
    /\ arc.waiting = {}
    /\ arc' = [arc EXCEPT !.state = "destroyed"]
    /\ ag' = [ag EXCEPT !.frees = Tally(@)]
    /\ UNCHANGED ah
    /\ TreeUnchanged

\* Arc::drop_in_place(mut self): the caller gives up one handle and ensures
\* that no Ptr points to the instance.
CallDropInPlace(t) ==
    /\ mode = "place"
    /\ ah[t].pc = "idle"
    /\ ah[t].handles > 0
    /\ \A u \in Threads : ~ah[u].ptr
    /\ ah' = [ah EXCEPT ![t].handles = @ - 1, ![t].pc = "place",
                        ![t].before = Owned, ![t].drops = 0]
    /\ UNCHANGED <<arc, ag>>
    /\ TreeUnchanged

\* if self.underlying().drop_ref() {
PlaceDropRef(t) ==
    /\ ah[t].pc = "place"
    /\ \E c \in LoadRefCnt(arc) :
          /\ arc' = [arc EXCEPT !.ref_cnt = DropRef(c).cnt]
          /\ ah' = [ah EXCEPT ![t].drops = @ + 1,
                              ![t].pc = IF DropRef(c).last THEN "place_free" ELSE "place_out"]
          /\ ag' = IF DropRef(c).last
                   THEN [ag EXCEPT !.zeroes = Tally(@), !.held = Barriers]
                   ELSE ag
    /\ TreeUnchanged

Placed(t, loc, a, g) ==
    [by |-> t, before |-> loc.before, drops |-> loc.drops, state |-> a.state,
     collects |-> g.collects]

\* self.instance_ptr.as_mut().drop_and_free(); std::mem::forget(self); }
PlaceFree(t) ==
    /\ ah[t].pc = "place_free"
    /\ arc' = [arc EXCEPT !.state = "destroyed"]
    /\ ah' = [ah EXCEPT ![t].pc = "idle", ![t].before = 0, ![t].drops = 0]
    /\ ag' = [ag EXCEPT !.frees = Tally(@),
                        !.placed = Placed(t, ah[t], arc', ag)]
    /\ TreeUnchanged

\* The if was not taken: self goes out of scope at the end of the function,
\* which runs Drop::drop on it: if self.underlying().drop_ref() {
PlaceOut(t) ==
    /\ ah[t].pc = "place_out"
    /\ \E c \in LoadRefCnt(arc) :
          /\ arc' = [arc EXCEPT !.ref_cnt = DropRef(c).cnt]
          /\ ah' = [ah EXCEPT ![t].drops = @ + 1,
                              ![t].pc = IF DropRef(c).last THEN "place_collect" ELSE "idle",
                              ![t].before = IF DropRef(c).last THEN @ ELSE 0]
          /\ ag' = IF DropRef(c).last
                   THEN [ag EXCEPT !.zeroes = Tally(@), !.held = Barriers]
                   ELSE [ag EXCEPT !.placed =
                            Placed(t, [ah[t] EXCEPT !.drops = @ + 1], arc', ag)]
    /\ TreeUnchanged

\* let barrier = Barrier::new(); barrier.collect(..) in that Drop::drop.
PlaceCollect(t) ==
    /\ ah[t].pc = "place_collect"
    /\ arc' = Collect(arc)
    /\ ah' = [ah EXCEPT ![t].pc = "idle", ![t].before = 0, ![t].drops = 0]
    /\ ag' = [ag EXCEPT !.collects = Tally(@),
                        !.placed = Placed(t, ah[t], arc', [ag EXCEPT !.collects = Tally(@)])]
    /\ TreeUnchanged

\* ------------------------------------------------------------ specifications
\* The calls that build the tree the callers start from: a full leaf, a leaf
\* split, a retired slot, a root split.
Script ==
    << [op |-> "insert", k |-> 1, v |-> 1], [op |-> "insert", k |-> 2, v |-> 1],
       [op |-> "insert", k |-> 3, v |-> 1], [op |-> "remove", k |-> 1, v |-> 0],
       [op |-> "insert", k |-> 1, v |-> 1] >>

\* The first thread makes the next call of the script, the others being idle.
CallScripted ==
    /\ script # <<>>
    /\ \A t \in Threads : th[t].pc = "idle"
    /\ script' = Tail(script)
    /\ budget' = budget
    /\ Begin(1, Head(script).op, Head(script).k, Head(script).v, FirstPc(Head(script).op), FALSE)

\* The rest of the script is dropped and the callers start.
DropScript ==
    /\ script # <<>>
    /\ \A t \in Threads : th[t].pc = "idle"
    /\ script' = <<>>
    /\ UNCHANGED <<leaf, node, root, th, gh, abs, budget, mode, arc, ah, ag, log>>

InitTree ==
    /\ leaf = <<>>
    /\ node = <<>>
    /\ root = Null
    /\ abs = EmptyMap
    /\ th = [t \in Threads |-> IdleLocals]
    /\ gh = [t \in Threads |-> IdleBook]
    /\ script = Script
    /\ log = <<>>
    /\ arc = NewUnderlying
    /\ ah = [t \in Threads |-> NoHandles]
    /\ ag = NoHistory

\* Concurrent callers of insert, remove and read.
Init ==
    /\ InitTree
    /\ mode = "conc"
    /\ budget = MaxCalls

Step(t) ==
        \/ CallInsert(t)
        \/ InsertLoadRoot(t)
        \/ InsertCasRoot(t)
        \/ InsertNode(t)
        \/ InsertIntegrate(t)
        \/ InsertSplitRoot(t)
        \/ CallRemove(t)
        \/ RemoveLoadRoot(t)
        \/ RemoveNode(t)
        \/ RemoveUpdateRoot(t)
        \/ RemoveReload(t)
        \/ CallRead(t)
        \/ ReadLoadRoot(t)
        \/ ReadSearch(t)

Next ==
    \/ CallScripted
    \/ DropScript
    \/ \E t \in Threads : Step(t)

Spec == Init /\ [][Next]_vars

\* The statements of the call thread t is in.
Run(t) ==
        \/ InsertLoadRoot(t)
        \/ InsertCasRoot(t)
        \/ InsertNode(t)
        \/ InsertIntegrate(t)
        \/ InsertSplitRoot(t)
        \/ RemoveLoadRoot(t)
        \/ RemoveNode(t)
        \/ RemoveUpdateRoot(t)
        \/ RemoveReload(t)
        \/ ReadLoadRoot(t)
        \/ ReadSearch(t)

\* Concurrent callers under a fair scheduler: a thread in a call executes
\* its next statement eventually.
InitFair ==
    /\ InitTree
    /\ mode = "fair"
    /\ budget = MaxFairCalls

SpecFair == InitFair /\ [][Next]_vars /\ \A t \in Threads : WF_vars(Run(t))

\* One caller at a time: the calls of the script, then calls of any kind, each
\* recorded in log when it returns.
InitSeq ==
    /\ InitTree
    /\ mode = "seq"
    /\ budget = MaxSeqCalls

StepSeq(t) ==
        \/ CallInsert(t)
        \/ InsertLoadRoot(t)
        \/ InsertCasRoot(t)
        \/ InsertNode(t)
        \/ InsertIntegrate(t)
        \/ InsertSplitRoot(t)
        \/ CallRemove(t)
        \/ RemoveLoadRoot(t)
        \/ RemoveNode(t)
        \/ RemoveUpdateRoot(t)
        \/ CallRead(t)
        \/ ReadLoadRoot(t)
        \/ ReadSearch(t)
        \/ CallIter(t)
        \/ ScanNext(t)
        \/ ScanLoadRoot(t)
        \/ ScanMin(t)
        \/ ScanAdvance(t)
        \/ ScanJump(t)
        \/ ScanFilter(t)
        \/ CallFrom(t)
        \/ FromLoadRoot(t)
        \/ FromMaxLess(t)
        \/ FromCheck(t)
        \/ CallClear(t)
        \/ TreeClear(t)
        \/ CallDepth(t)
        \/ TreeDepth(t)

NextSeq ==
    \/ CallScripted
    \/ DropScript
    \/ StepSeq(1)

SpecSeq == InitSeq /\ [][NextSeq]_vars

\* The reference map after the first i calls of log.
RECURSIVE RefMap(_)
RefMap(i) ==
    IF i = 0 THEN EmptyMap
    ELSE AbsApply(RefMap(i - 1), log[i].op, log[i].k, log[i].v).map

AllIdle == \A t \in Threads : th[t].pc = "idle"

\* Concurrent callers of insert, each inserting a key of its own.
InitIns ==
    /\ InitTree
    /\ mode = "ins"
    /\ budget = MaxCalls

StepIns(t) ==
        \/ CallInsert(t)
        \/ InsertLoadRoot(t)
        \/ InsertCasRoot(t)
        \/ InsertNode(t)
        \/ InsertIntegrate(t)
        \/ InsertSplitRoot(t)
        \/ RemoveLoadRoot(t)
        \/ RemoveNode(t)

NextIns ==
    \/ CallScripted
    \/ DropScript
    \/ \E t \in Threads : StepIns(t)

SpecIns == InitIns /\ [][NextIns]_vars

\* Concurrent callers of insert, each inserting the same key once.
InitDup ==
    /\ InitTree
    /\ mode = "dup"
    /\ budget = NThreads

SpecDup == InitDup /\ [][NextIns]_vars

\* Concurrent callers of insert and remove, each call recorded in log when
\* it returns.
InitCons ==
    /\ InitTree
    /\ mode = "cons"
    /\ budget = MaxCalls

StepCons(t) ==
        \/ CallInsert(t)
        \/ InsertLoadRoot(t)
        \/ InsertCasRoot(t)
        \/ InsertNode(t)
        \/ InsertIntegrate(t)
        \/ InsertSplitRoot(t)
        \/ CallRemove(t)
        \/ RemoveLoadRoot(t)
        \/ RemoveNode(t)
        \/ RemoveUpdateRoot(t)
        \/ RemoveReload(t)

NextCons ==
    \/ CallScripted
    \/ DropScript
    \/ \E t \in Threads : StepCons(t)

SpecCons == InitCons /\ [][NextCons]_vars

\* One thread scans while the others insert and remove.
InitScan ==
    /\ InitTree
    /\ mode = "scan"
    /\ budget = MaxScanCalls

StepScan(t) ==
        \/ CallInsert(t)
        \/ InsertLoadRoot(t)
        \/ InsertCasRoot(t)
        \/ InsertNode(t)
        \/ InsertIntegrate(t)
        \/ InsertSplitRoot(t)
        \/ CallRemove(t)
        \/ RemoveLoadRoot(t)
        \/ RemoveNode(t)
        \/ RemoveUpdateRoot(t)
        \/ CallIter(t)
        \/ ScanNext(t)
        \/ ScanLoadRoot(t)
        \/ ScanMin(t)
        \/ ScanAdvance(t)
        \/ ScanJump(t)
        \/ ScanFilter(t)

NextScan ==
    \/ CallScripted
    \/ DropScript
    \/ \E t \in Threads : StepScan(t)

SpecScan == InitScan /\ [][NextScan]_vars

\* One thread keeps its Scanner and calls next() on it after None, while the
\* others insert and remove.
InitFuse ==
    /\ InitTree
    /\ mode = "fuse"
    /\ budget = MaxScanCalls

NextFuse ==
    \/ CallScripted
    \/ DropScript
    \/ \E t \in Threads : StepScan(t)
    \/ \E t \in Threads : ScanNextAfterNone(t)

SpecFuse == InitFuse /\ [][NextFuse]_vars

\* Threads share one instance: thread 1 made it with Arc::new; the threads
\* clone, send, drop and upgrade handles, under Barriers of their own.
InitArc ==
    /\ leaf = <<>>
    /\ node = <<>>
    /\ root = Null
    /\ abs = EmptyMap
    /\ th = [t \in Threads |-> IdleLocals]
    /\ gh = [t \in Threads |-> IdleBook]
    /\ script = <<>>
    /\ log = <<>>
    /\ budget = 0
    /\ mode = "arc"
    /\ arc = NewUnderlying
    /\ ah = [t \in Threads |-> IF t = 1 THEN [NoHandles EXCEPT !.handles = 1] ELSE NoHandles]
    /\ ag = NoHistory

StepArc(t) ==
        \/ ArcClone(t)
        \/ \E u \in Threads : ArcSend(t, u)
        \/ BarrierNew(t)
        \/ BarrierDrop(t)
        \/ ArcPtr(t)
        \/ ArcTryFrom(t)
        \/ ArcDropRef(t)
        \/ ArcCollect(t)

NextArc ==
    \/ \E t \in Threads : StepArc(t)
    \/ Reclaim

SpecArc == InitArc /\ [][NextArc]_vars

\* Threads that hold no Ptr clone, send and drop handles, and also give them
\* up with drop_in_place.
InitPlace ==
    /\ leaf = <<>>
    /\ node = <<>>
    /\ root = Null
    /\ abs = EmptyMap
    /\ th = [t \in Threads |-> IdleLocals]
    /\ gh = [t \in Threads |-> IdleBook]
    /\ script = <<>>
    /\ log = <<>>
    /\ budget = 0
    /\ mode = "place"
    /\ arc = NewUnderlying
    /\ ah = [t \in Threads |-> IF t = 1 THEN [NoHandles EXCEPT !.handles = 1] ELSE NoHandles]
    /\ ag = NoHistory

StepPlace(t) ==
        \/ ArcClone(t)
        \/ \E u \in Threads : ArcSend(t, u)
        \/ ArcDropRef(t)
        \/ ArcCollect(t)
        \/ CallDropInPlace(t)
        \/ PlaceDropRef(t)
        \/ PlaceFree(t)
        \/ PlaceOut(t)
        \/ PlaceCollect(t)

NextPlace ==
    \/ \E t \in Threads : StepPlace(t)
    \/ Reclaim

SpecPlace == InitPlace /\ [][NextPlace]_vars

\* ------------------------------------------------------------ properties
Idle(t) == th[t].pc = "idle"
Returned(t, o) == Idle(t) /\ th[t].op = o
Reading(t) == th[t].op = "read" /\ ~Idle(t)

\* A read in flight can always take its next step, whatever the other
\* threads hold.
ReadNeverBlocked ==
    \A t \in Threads :
        /\ th[t].pc = "rd_load" => ENABLED ReadLoadRoot(t)
        /\ th[t].pc = "rd_search" => ENABLED ReadSearch(t)

C2_Linearizable ==
    \A t \in Threads : Idle(t) /\ th[t].op # "none" => th[t].ret = gh[t].expect

\* C3: with one caller, an insert of a key that is present returns Err with
\* the pair it was given and leaves the stored value as it was, which a read
\* of the key then yields; an insert of an absent key returns Ok.
C3_DuplicateInsertRejected ==
    \A i \in 1..Len(log) :
        /\ log[i].op = "insert" /\ RefMap(i - 1)[log[i].k] = NoVal =>
              log[i].ret = Ret("Ok", 0, 0)
        /\ log[i].op = "insert" /\ RefMap(i - 1)[log[i].k] # NoVal =>
            /\ log[i].ret = Ret("Err", log[i].k, log[i].v)
            /\ i = Len(log) /\ AllIdle =>
                  /\ TreeMap(Heap)[log[i].k] = RefMap(i - 1)[log[i].k]
                  /\ NodeSearch(Heap, root, log[i].k) =
                        [tag |-> "Ok", val |-> RefMap(i - 1)[log[i].k]]
            /\ i < Len(log) /\ log[i + 1].op = "read" /\ log[i + 1].k = log[i].k =>
                  log[i + 1].ret = Ret("Some", 0, UserF(log[i].k, RefMap(i - 1)[log[i].k]))

\* An insert of a present key with another value was rejected and the key
\* was read next.
C3_Witness ==
    \E i \in 1..Len(log) :
        /\ i < Len(log)
        /\ log[i].op = "insert"
        /\ log[i].ret.tag = "Err"
        /\ log[i].v # RefMap(i - 1)[log[i].k]
        /\ log[i + 1].op = "read"
        /\ log[i + 1].k = log[i].k

\* The keys of map m.
MapKeys(m) == {k \in Keys : m[k] # NoVal}

\* C4: concurrent inserts of distinct absent keys all return Ok, and once
\* all have returned every inserted key is read with its value and len() is
\* the number of keys inserted, those of the starting tree included.
C4_NoInsertLost ==
    /\ \A i \in 1..Len(log) : log[i].free => log[i].ret = Ret("Ok", 0, 0)
    /\ AllIdle =>
          /\ \A i \in 1..Len(log) :
                log[i].free =>
                    /\ root # Null
                    /\ NodeSearch(Heap, root, log[i].k) = [tag |-> "Ok", val |-> log[i].v]
          /\ TreeLen(Heap) = Cardinality(MapKeys(RefMap(Len(log))))

\* Starting from the empty tree the threads raced to install the first root,
\* one of them started over, and every insert has returned.
C4_Witness ==
    /\ AllIdle
    /\ budget = 0
    /\ Len(log) = MaxCalls
    /\ \A i \in 1..Len(log) : log[i].free
    /\ \E t \in Threads : gh[t].restarts > 0
    /\ TreeLen(Heap) = MaxCalls

\* The callers of the duplicate-insert driver that have called, and those
\* that have returned.
DupCallers == {t \in Threads : gh[t].free}
DupDone == {t \in DupCallers : Idle(t)}
DupOk == {t \in DupDone : th[t].ret.tag = "Ok"}

\* C5: of the inserts of one absent key made by several threads exactly one
\* returns Ok, each of the others returns Err with its own pair, and the key
\* ends up mapped to the value of the call that returned Ok.
C5_OneInsertWins ==
    /\ Cardinality(DupOk) <= 1
    /\ \A t \in DupDone \ DupOk : th[t].ret = Ret("Err", gh[t].k0, gh[t].v0)
    /\ DupDone = Threads =>
          /\ Cardinality(DupOk) = 1
          /\ \A t \in DupOk : TreeMap(Heap)[gh[t].k0] = gh[t].v0

\* Every thread has made its insert of the key and one whose attempt had to
\* start over was rejected.
C5_Witness ==
    /\ DupDone = Threads
    /\ \E t \in Threads : th[t].ret.tag = "Err" /\ gh[t].restarts > 0

\* C6: with one caller, a remove returns true exactly when the key was
\* present, a remove right after a remove of the same key returns false, a
\* read right after a remove of the key returns None, and the key is absent
\* once the remove has returned; the empty tree with a null root included.
C6_RemoveIdempotent ==
    \A i \in 1..Len(log) :
        log[i].op = "remove" =>
            /\ log[i].ret = RetBool(RefMap(i - 1)[log[i].k] # NoVal)
            /\ i < Len(log) /\ log[i + 1].k = log[i].k =>
                  /\ log[i + 1].op = "remove" => log[i + 1].ret = RetBool(FALSE)
                  /\ log[i + 1].op = "read" => log[i + 1].ret = Ret("None", 0, 0)
            /\ i = Len(log) /\ AllIdle => TreeMap(Heap)[log[i].k] = NoVal

\* The last key was removed, which left the root null, and removed again.
C6_Witness ==
    /\ root = Null
    /\ AllIdle
    /\ Len(log) >= 2
    /\ log[Len(log)].op = "remove"
    /\ log[Len(log)].ret = RetBool(FALSE)
    /\ log[Len(log) - 1].op = "remove"
    /\ log[Len(log) - 1].k = log[Len(log)].k
    /\ log[Len(log) - 1].ret = RetBool(TRUE)

\* C7: a remove whose attempt retired an entry and reported Retry or
\* Coalesce returns true, whatever its later attempts observe.
C7_RemoveSticky ==
    \A t \in Threads :
        Returned(t, "remove") /\ gh[t].retired => th[t].ret = RetBool(TRUE)

\* A remove retired its entry, was told to retry, found nothing to retire on
\* the later attempt, and returned true.
C7_Witness ==
    \E t \in Threads :
        /\ Returned(t, "remove")
        /\ gh[t].retired
        /\ gh[t].restarts > 0
        /\ gh[t].after = "Ok"
        /\ th[t].ret = RetBool(TRUE)

\* C8: a read returns None when the root is null or the key has no live
\* entry and Some(f(k, v)) when the key is mapped to v, calls f once in the
\* second case and never in the first, and returns neither while it is told
\* to retry.
C8_ReadResult ==
    \A t \in Threads :
        /\ Reading(t) => gh[t].fcalls = 0 /\ th[t].ret = NoRet
        /\ Returned(t, "read") =>
              IF gh[t].live = NoVal
              THEN th[t].ret = Ret("None", 0, 0) /\ gh[t].fcalls = 0
              ELSE th[t].ret = Ret("Some", 0, UserF(gh[t].k0, gh[t].live)) /\ gh[t].fcalls = 1

\* A read that was told to retry found the key on its next attempt.
C8_Witness ==
    \E t \in Threads :
        /\ Returned(t, "read")
        /\ gh[t].restarts > 0
        /\ gh[t].fcalls = 1
        /\ gh[t].live # NoVal

\* How often a scan has yielded key k.
YieldCount(t, k) == Cardinality({i \in 1..Len(gh[t].yielded) : gh[t].yielded[i][1] = k})

\* C9: a scan that has ended has yielded every key that was present from its
\* start to its end exactly once, and no scan yields any key twice.
C9_ScanYieldsStableKeysOnce ==
    \A t \in Threads :
        th[t].op = "scan" =>
            /\ \A k \in Keys : YieldCount(t, k) <= 1
            /\ Idle(t) => \A k \in gh[t].stable : YieldCount(t, k) = 1

\* A scan has ended that followed the forward link of a leaf split under it,
\* while another key was inserted and one it started with was removed.
C9_Witness ==
    \E t \in Threads :
        /\ Returned(t, "scan")
        /\ th[t].scanner # NoScanner
        /\ leaf[th[t].scanner.leaf].obs
        /\ gh[t].stable # {}
        /\ \E k \in Keys : k \notin gh[t].stable /\ YieldCount(t, k) = 1
        /\ Len(gh[t].yielded) > Cardinality(gh[t].stable)

\* C10: the keys a scan yields are strictly increasing.
C10_ScanStrictlyIncreasing ==
    \A t \in Threads :
        th[t].op = "scan" =>
            \A i \in 1..Len(gh[t].yielded) - 1 : gh[t].yielded[i][1] < gh[t].yielded[i + 1][1]

\* A scan skipped an entry after following a forward link and yielded a
\* greater one next.
C10_Witness ==
    \E t \in Threads :
        /\ th[t].op = "scan"
        /\ th[t].pc = "sc_ready"
        /\ th[t].min_allowed_key # 0
        /\ th[t].new_scanner # NoScanner
        /\ th[t].leaf_scanner.leaf = th[t].new_scanner.leaf
        /\ \E e \in leaf[th[t].new_scanner.leaf].ents : e[1] <= th[t].min_allowed_key
        /\ Len(gh[t].yielded) >= 2

\* The entries of map m in ascending key order.
SortedEntries(m) ==
    LET ks == SortedKeys(MapKeys(m))
    IN  [i \in 1..Len(ks) |-> <<ks[i], m[ks[i]]>>]

\* C11: with one caller, a scan to its first None yields the entries of the
\* reference map (each key whose last successful call was an insert, with the
\* value of that insert) in ascending key order, and len() is their number.
C11_IterYieldsLiveEntries ==
    /\ \A i \in 1..Len(log) :
          log[i].op = "scan" =>
              log[i].out = SortedEntries(RefMap(i - 1)) /\ log[i].ret = Ret("None", 0, 0)
    /\ AllIdle => TreeLen(Heap) = Cardinality(MapKeys(RefMap(Len(log))))

\* A scan of a tree with an internal root, made after a remove, yielded
\* three entries.
C11_Witness ==
    /\ AllIdle
    /\ Len(log) > 0
    /\ log[Len(log)].op = "scan"
    /\ Len(log[Len(log)].out) >= 3
    /\ \E i \in 1..Len(log) : log[i].op = "remove" /\ log[i].ret = RetBool(TRUE)
    /\ node[root].floor > 0

\* The keys of map m that are not below k.
KeysFrom(m, k) == {x \in MapKeys(m) : x >= k}

\* The entries of map m with a key in S, in ascending key order.
EntriesOf(m, S) == SortedEntries([x \in Keys |-> IF x \in S THEN m[x] ELSE NoVal])

\* C12: with one caller, from(k) returns None when no key of the map is >= k;
\* otherwise get() on the scanner it returns is the entry of the least key
\* >= k, and the next() calls return the entries of the greater keys in
\* ascending order, then None.
C12_FromPositionsAtLeastKey ==
    \A i \in 1..Len(log) :
        log[i].op = "from" =>
            LET m == RefMap(i - 1)
                S == KeysFrom(m, log[i].k)
            IN  /\ log[i].ret = Ret("None", 0, 0)
                /\ IF S = {} THEN log[i].got = <<0, NoVal>> /\ log[i].out = <<>>
                   ELSE /\ log[i].got = <<Min(S), m[Min(S)]>>
                        /\ log[i].out = EntriesOf(m, S \ {Min(S)})

\* from(k) of an absent key has returned a scanner on a greater key, and the
\* scanner was run to its end over another leaf.
C12_Witness ==
    \E i \in 1..Len(log) :
        /\ log[i].op = "from"
        /\ log[i].got[1] > log[i].k
        /\ Len(log[i].out) >= 1
        /\ \E j \in 1..(i - 1) : log[j].op = "remove" /\ log[j].k = log[i].k

\* C13 as stated: the next() calls on the scanner from(k) returns yield every
\* key >= k of the map, the least of them first.
C13_FromIterationStartsAtLeastKey ==
    \A i \in 1..Len(log) :
        log[i].op = "from" =>
            log[i].out = EntriesOf(RefMap(i - 1), KeysFrom(RefMap(i - 1), log[i].k))

\* C13, amended: get() on the scanner from(k) returns, followed by what its
\* next() calls yield, is every entry of the map with a key >= k in ascending
\* order; the next() calls begin after the least key >= k.
C13_FromGetThenIteration ==
    \A i \in 1..Len(log) :
        log[i].op = "from" /\ KeysFrom(RefMap(i - 1), log[i].k) # {} =>
            /\ <<log[i].got>> \o log[i].out =
                   EntriesOf(RefMap(i - 1), KeysFrom(RefMap(i - 1), log[i].k))
            /\ \A j \in 1..Len(log[i].out) : log[i].out[j][1] > log[i].got[1]

\* from(k) of a present key was followed by two next() calls that yielded.
C13_Witness ==
    \E i \in 1..Len(log) :
        /\ log[i].op = "from"
        /\ log[i].got[1] = log[i].k
        /\ Len(log[i].out) >= 2

\* C14: with one caller, clear leaves the tree empty whatever it held: the
\* root is null, len() is 0, a scan yields nothing, a read of any key returns
\* None, and an insert of any key returns Ok.
C14_ClearEmptiesTree ==
    \A i \in 1..Len(log) :
        log[i].op = "clear" =>
            /\ i = Len(log) /\ AllIdle =>
                  /\ root = Null
                  /\ TreeLen(Heap) = 0
                  /\ TreeEntries(Heap) = {}
            /\ i < Len(log) =>
                  /\ log[i + 1].op = "read" => log[i + 1].ret = Ret("None", 0, 0)
                  /\ log[i + 1].op = "scan" => log[i + 1].out = <<>>
                  /\ log[i + 1].op = "insert" => log[i + 1].ret = Ret("Ok", 0, 0)

\* A tree of three keys was cleared and one of the keys was inserted again.
C14_Witness ==
    \E i \in 1..Len(log) :
        /\ i < Len(log)
        /\ log[i].op = "clear"
        /\ Cardinality(MapKeys(RefMap(i - 1))) >= 3
        /\ log[i + 1].op = "insert"
        /\ RefMap(i - 1)[log[i + 1].k] # NoVal
        /\ log[i + 1].ret = Ret("Ok", 0, 0)

\* C15: with one caller, depth() returns 0 exactly when the map is empty (no
\* call yet, after clear, after the removal of every key) and otherwise one
\* more than the floor of the root in place.
C15_DepthZeroIffEmpty ==
    \A i \in 1..Len(log) :
        log[i].op = "depth" =>
            /\ log[i].ret.tag = "Depth"
            /\ log[i].ret.v = 0 <=> MapKeys(RefMap(i - 1)) = {}
            /\ i = Len(log) /\ AllIdle =>
                  log[i].ret.v = IF root = Null THEN 0 ELSE node[root].floor + 1

\* depth() returned 0 after the keys of a tree with an internal root had been
\* removed one by one.
C15_Witness ==
    \E i \in 1..Len(log) :
        /\ log[i].op = "depth"
        /\ log[i].ret.v = 0
        /\ \A j \in 1..i : log[j].op # "clear"
        /\ Cardinality({j \in 1..i : log[j].op = "remove" /\ log[j].ret = RetBool(TRUE)}) >= 3

\* C16: over all interleavings of clone, drop and try_from, the count falls
\* from positive to zero at most once and then stays zero with no handle
\* left; the instance is passed to the reclaimer at most once, by the drop
\* that brought the count to zero; a try_from that returned Ok found a
\* nonzero count and raised it by one; a try_from that found zero, and every
\* try_from after the count fell to zero, returned Err and left the caller
\* its Ptr.
C16_CountZeroOnce ==
    /\ ag.zeroes <= 1
    /\ ag.collects <= ag.zeroes
    /\ ag.zeroes = 1 =>
          /\ arc.ref_cnt = 0
          /\ Owned = 0
          /\ ag.collects = 1 \/ \E t \in Threads : ah[t].pc = "collect"
    /\ ag.zeroes = 0 => arc.ref_cnt = Owned /\ arc.ref_cnt > 0
    /\ \A t \in Threads :
          /\ ah[t].tf = "Ok" =>
                /\ ah[t].before > 0
                /\ ah[t].after = ah[t].before + 1
                /\ ~ah[t].zeroed
          /\ ah[t].tf = "Err" =>
                /\ ah[t].before = 0
                /\ ah[t].after = 0
                /\ ah[t].zeroed
                /\ ah[t].ptr

\* One thread upgraded its Ptr while handles existed; later the last handle
\* was dropped and collected, and the other thread's upgrade failed.
C16_Witness ==
    \E t, u \in Threads :
        /\ ah[t].tf = "Ok"
        /\ ah[u].tf = "Err"
        /\ ag.collects = 1
        /\ arc.ref_cnt = 0

\* C17: the drop that brings the count to zero does not destroy the instance;
\* the instance is destroyed only after it was passed to the reclaimer, and
\* not while a Barrier that was held at that drop is still held: an instance
\* a thread holds a Ptr to is not destroyed.
C17_NotDestroyedUnderBarrier ==
    /\ arc.state = "destroyed" => ag.collects = 1 /\ ag.frees = 1
    /\ ag.held # {} => arc.state # "destroyed"
    /\ \A t \in Threads :
          /\ ah[t].pc = "collect" => arc.state = "alive"
          /\ ah[t].ptr => ah[t].barrier /\ arc.state # "destroyed"

\* A thread holds a Ptr under its Barrier to an instance whose handles the
\* other thread dropped, the last of them with the Barrier already held: the
\* instance is with the reclaimer.
C17_Witness ==
    \E t \in Threads :
        /\ ah[t].ptr
        /\ t \in ag.held
        /\ Owned = 0
        /\ arc.state = "collected"
        /\ ag.zeroes = 1

\* C18: a drop_in_place call releases one reference: it decrements the count
\* once; when it gave up the last handle the instance is destroyed at its
\* return and was never passed to the reclaimer; while handles exist the
\* count equals their number and the instance is alive and not collected.
C18_DropInPlaceReleasesOne ==
    /\ ag.placed.by # NoThread =>
          /\ ag.placed.drops = 1
          /\ ag.placed.before = 1 => ag.placed.state = "destroyed" /\ ag.placed.collects = 0
    /\ Owned > 0 => arc.state = "alive" /\ ag.collects = 0 /\ arc.ref_cnt >= Owned

\* The leaves of the tree that hold key k.
LeavesWith(H, k) ==
    IF H.root = Null THEN {}
    ELSE {l \in LeavesUnder(H, H.root) : k \in LiveKeys(H.leaf[l])}

\* C19: of the inserters that call split_root on a root that returned Full,
\* one replaces it, by a root one level taller, and the calls of the others
\* change nothing: the depth rises by one per full root; no split_root call
\* changes the entries of the tree; an inserter retries with the entry it was
\* called with; once the inserts have returned each entry is stored in one
\* leaf, with its caller's value.
C19_RootSplitOnce ==
    /\ \A t \in Threads :
          /\ gh[t].split.same
          /\ gh[t].split.rise = IF gh[t].split.won THEN 1 ELSE 0
          /\ th[t].op = "insert" /\ ~Idle(t) =>
                th[t].key = gh[t].k0 /\ th[t].value = gh[t].v0
          /\ \A u \in Threads \ {t} :
                gh[t].split.won /\ gh[u].split.won => gh[t].split.root # gh[u].split.root
    /\ AllIdle =>
          \A i \in 1..Len(log) :
              log[i].op = "insert" /\ log[i].ret = Ret("Ok", 0, 0)
                  /\ RefMap(Len(log))[log[i].k] = log[i].v =>
                  /\ Cardinality(LeavesWith(Heap, log[i].k)) = 1
                  /\ <<log[i].k, log[i].v>> \in TreeEntries(Heap)

\* Two inserters saw the same root full and both called split_root on it;
\* one call replaced the root and the other did not; both inserts returned.
C19_Witness ==
    \E t, u \in Threads :
        /\ gh[t].split.won
        /\ ~gh[u].split.won
        /\ gh[u].split.root = gh[t].split.root
        /\ gh[t].split.root # Null
        /\ AllIdle
        /\ th[t].ret = Ret("Ok", 0, 0)
        /\ th[u].ret = Ret("Ok", 0, 0)
        /\ gh[t].free /\ gh[u].free

\* Every restart of an insert or a remove followed a lost root CAS, a Full
\* or a Retry that a completed structural change explains.
RestartsAccounted ==
    \A t \in Threads : gh[t].why \in {"none", "cas", "full", "merged", "retired"}

\* Every restart followed a lost root CAS, a Full or a Retry that a
\* structural change explains, completed or staged by another operation.
RestartsCaused ==
    \A t \in Threads :
        /\ gh[t].why \in {"none", "cas", "full", "merged", "retired", "staged"}
        /\ th[t].op \in {"insert", "remove"} => (gh[t].restarts > 0 <=> gh[t].why # "none")

Returns(o, k, r) == Cardinality({i \in 1..Len(log) : log[i].op = o /\ log[i].k = k /\ log[i].ret = r})
OkInserts(k) == Returns("insert", k, Ret("Ok", 0, 0))
TrueRemoves(k) == Returns("remove", k, RetBool(TRUE))

\* One call of remove retires at most one entry.
RetiresOnce == \A t \in Threads : th[t].op = "remove" => gh[t].retires <= 1

\* For every key, no more removes have returned true than inserts Ok.
RemovesWithinInserts == \A k \in Keys : TrueRemoves(k) <= OkInserts(k)

\* With no call in flight a key is present exactly when the inserts of it
\* that returned Ok are one more than the removes that returned true, and
\* equal in number otherwise.
PresentIffOneMore ==
    AllIdle =>
        \A k \in Keys :
            /\ OkInserts(k) - TrueRemoves(k) \in {0, 1}
            /\ TreeMap(Heap)[k] # NoVal <=> OkInserts(k) - TrueRemoves(k) = 1

\* C21: a call of remove retires at most one entry, also when it retries
\* after it has retired one; so for every key the removes that returned
\* true never outnumber the inserts that returned Ok, and with no call in
\* flight the key is present exactly when the Ok inserts exceed the true
\* removes by one, the difference being 0 or 1.
C21_EntriesConserved ==
    /\ RetiresOnce
    /\ RemovesWithinInserts
    /\ PresentIffOneMore

\* The keys of the entries in sequence q, and whether they are strictly
\* increasing.
KeysOf(q) == {q[i][1] : i \in 1..Len(q)}
Increasing(q) == \A i \in 1..Len(q) - 1 : q[i][1] < q[i + 1][1]

\* All that the Scanner of thread t has yielded since it was made.
Lifetime(t) ==
    IF gh[t].passes = <<>> THEN gh[t].yielded ELSE gh[t].passes[1] \o gh[t].yielded

\* C22 as stated: once next() has returned None every later call returns
\* None, and over the life of the Scanner every key yielded is greater than
\* the keys yielded before it, so none is yielded twice.
C22_ScannerFused ==
    \A t \in Threads :
        th[t].op = "scan" =>
            /\ gh[t].passes # <<>> => gh[t].yielded = <<>>
            /\ Increasing(Lifetime(t))

\* C22, amended: the Scanner is not fused.  A next() called after None
\* starts over at the minimum key of the tree as it is then: from one None
\* to the next the keys yielded are strictly increasing, and when the next
\* None is returned every key that was present since the call after the
\* first None has been yielded again.
C22_ScannerStartsOver ==
    \A t \in Threads :
        th[t].op = "scan" =>
            /\ Increasing(gh[t].yielded)
            /\ \A i \in 1..Len(gh[t].passes) : Increasing(gh[t].passes[i])
            /\ gh[t].passes # <<>> /\ Idle(t) => gh[t].stable \subseteq KeysOf(gh[t].yielded)

\* A Scanner yielded keys up to None, was asked again and has returned None
\* a second time, having yielded a key of the first pass once more and a
\* key inserted since.
C22_Witness ==
    \E t \in Threads :
        /\ Returned(t, "scan")
        /\ gh[t].passes # <<>>
        /\ gh[t].stable # {}
        /\ KeysOf(gh[t].passes[1]) \cap KeysOf(gh[t].yielded) # {}
        /\ KeysOf(gh[t].yielded) \ KeysOf(gh[t].passes[1]) # {}
====
